---------------------------- MODULE Spec2Model ----------------------------
(***************************************************************************)
(* A model of magma's HMAC provider, src/providers/cryptography/hmac.c:    *)
(* the validated path hmac_multi_digest_nonnull_output, the allocating     *)
(* path hmac_multi_digest_null_output, the dispatcher hmac_multi_digest    *)
(* and the single-round entry hmac_digest.                                 *)
(*                                                                         *)
(* Every call c has its own arguments, locals, HMAC_CTX and buffers.  A    *)
(* call advances one library call at a time (EVP_MD_size_d, st_alloc,      *)
(* HMAC_Init_ex_d, each HMAC_Update_d, HMAC_Final_d, HMAC_CTX_cleanup_d,   *)
(* st_free); what OpenSSL and the allocator answer is chosen by the        *)
(* environment.                                                            *)
(***************************************************************************)
EXTENDS Integers, Sequences, FiniteSets, TLC

VARIABLES
    arg,     \* arg[c]: the caller's arguments, as passed (never changed)
    pc,      \* pc[c]: where call c stands
    loc,     \* loc[c]: parameters and locals of the functions of call c
    buf,     \* buf[c]: the stringers call c can reach, by pointer
    ctx,     \* ctx[c]: the HMAC_CTX on the stack of call c
    ops,     \* ops[c]: the library calls made so far, in order
    log,     \* log[c]: the messages logged so far, in order
    freed,   \* freed[c]: the pointers handed to st_free, in order
    before   \* before[c]: the output stringer as the validated path received it

vars == <<arg, pc, loc, buf, ctx, ops, log, freed, before>>

----------------------------------------------------------------------------
(* Bounds of the model *)

\* Largest capacity / length of a caller-supplied stringer.
MaxBuf == 3

\* Largest digest size; the algorithms have sizes -1, 0, MaxDigest-1, MaxDigest.
MaxDigest == 3

\* Largest round count a caller passes (besides -1 and 0).
MaxRounds == 3

\* Width in bits of uint_t in the model.
UIntBits == 3

\* Width in bits of size_t in the model.
SizeTBits == 4

----------------------------------------------------------------------------
(* C types *)

NULL == "NULL"

RECURSIVE Pow2(_)
Pow2(n) == IF n = 0 THEN 1 ELSE 2 * Pow2(n - 1)

\* Conversion of an int to uint_t (the rounds parameter, line 42; the
\* comparison of line 132).
ToUInt(n) == n % Pow2(UIntBits)

\* Conversion of an int to size_t (st_alloc's parameter, line 164; the
\* comparison of line 93; st_length_set's parameter, line 139).
ToSizeT(n) == n % Pow2(SizeTBits)

----------------------------------------------------------------------------
(* Stringers (magma core; the capability flags as the specification names  *)
(* them)                                                                   *)

\* st_valid_avail(opts)
st_valid_avail(st) == st.avail

\* st_valid_destination(opts)
st_valid_destination(st) == st.dest

\* st_valid_tracked(opts)
st_valid_tracked(st) == st.tracked

\* st_avail_get(buffer)
st_avail_get(st) == st.capacity

\* st_length_get(s)
st_length_get(st) == st.length

\* st_empty(s): s is NULL or has no bytes
st_empty(s) == (~s.present) \/ Len(s.bytes) = 0

\* st_length_set(s, len)
st_length_set(st, n) == [st EXCEPT !.length = n]

\* The bytes a stringer's storage holds before anything is written to it.
Stale(n) == [i \in 1..n |-> 0]

\* What st_alloc(len) may return: NULL, or a writable stringer of exactly
\* len bytes (capacity = length = len); the allocator decides the other flags.
\* A request larger than any buffer of the model cannot be satisfied.
st_alloc(len) ==
    {[present |-> FALSE]} \cup
    (IF len > MaxBuf + 1 THEN {}
     ELSE {[present |-> TRUE, avail |-> a, dest |-> TRUE, tracked |-> t,
            length |-> len, capacity |-> len, data |-> Stale(len)]
           : a \in BOOLEAN, t \in BOOLEAN})

----------------------------------------------------------------------------
(* OpenSSL *)

\* EVP_MD_size_d(md): the size the algorithm reports; EVP_MD_size answers -1
\* for a NULL md.
EVP_MD_size_d(digest) == IF digest.present THEN digest.size ELSE -1

RECURSIVE Absorb(_, _)
Absorb(h, bytes) ==
    IF bytes = <<>> THEN h
    ELSE Absorb((3 * h + Head(bytes) + 1) % 7, Tail(bytes))

\* The n bytes of the MAC of the stream fed under key (never the stale byte).
Mac(key, fed, n) ==
    [i \in 1..n |-> 1 + ((Absorb(Absorb(1, key), fed) + i) % 5)]

\* What HMAC_Final_d may do with a context whose algorithm has size n and a
\* destination of room bytes: return rc and report len bytes in *len, having
\* written `wrote` bytes at the start of the destination.
HMAC_Final_outcomes(n, room) ==
    {[rc |-> 1, len |-> n, wrote |-> n],
     [rc |-> 1, len |-> n - 1, wrote |-> n - 1],
     [rc |-> 0, len |-> 0, wrote |-> 0],
     [rc |-> 0, len |-> 0, wrote |-> n - 1]}
    \cup (IF n + 1 <= room THEN {[rc |-> 1, len |-> n + 1, wrote |-> n + 1]}
          ELSE {})

\* memcpy of the first bytes of src over dst, from offset 0.
Overwrite(dst, src) ==
    [i \in 1..Len(dst) |-> IF i <= Len(src) THEN src[i] ELSE dst[i]]

\* The record of one library call: the function, what it returned (1 for a
\* void function) and the length it was given or reported.
Called(f, rc, n) == [f |-> f, rc |-> rc, n |-> n]

----------------------------------------------------------------------------
(* hmac.c *)

\* buffer_size_get reading the length whatever the flags say.
buffer_size_get_length(buffer) == st_length_get(buffer)

\* buffer_size_get (lines 26-37)
buffer_size_get(buffer) ==
    IF st_valid_avail(buffer) THEN st_avail_get(buffer)
    ELSE st_length_get(buffer)

\* One outcome of the checks of lines 54-100: the message logged ("" when
\* every check passed), the checks evaluated, and digest_output_size.
Checked(msg, n, size) == [msg |-> msg, checks |-> n, size |-> size]

\* The checks with the key tested before the input.
Validate_KeyBeforeInput(rounds, digest, s, key, output) ==
    IF rounds < 1 THEN Checked("rounds must be > 0", 1, 0)
    ELSE IF ~digest.present THEN Checked("Digest algorithm is NULL", 2, 0)
    ELSE LET size == EVP_MD_size_d(digest) IN
    IF size < 1
    THEN Checked("EVP_MD_size_d() returned invalid size for digest algorithm", 3, size)
    ELSE IF st_empty(key)
    THEN Checked("Key stringer 'key' is NULL or empty", 4, size)
    ELSE IF st_empty(s)
    THEN Checked("Input stringer 's' is NULL or empty", 5, size)
    ELSE IF ~output.present
    THEN Checked("Input stringer 'output' is NULL", 6, size)
    ELSE IF ~st_valid_destination(output)
    THEN Checked("Cannot write to stringer", 7, size)
    ELSE IF buffer_size_get(output) < ToSizeT(size)
    THEN Checked("'output' stringer is too small", 8, size)
    ELSE Checked("", 8, size)

\* The checks without the test of the output's size.
Validate_NoSizeCheck(rounds, digest, s, key, output) ==
    IF rounds < 1 THEN Checked("rounds must be > 0", 1, 0)
    ELSE IF ~digest.present THEN Checked("Digest algorithm is NULL", 2, 0)
    ELSE LET size == EVP_MD_size_d(digest) IN
    IF size < 1
    THEN Checked("EVP_MD_size_d() returned invalid size for digest algorithm", 3, size)
    ELSE IF st_empty(s)
    THEN Checked("Input stringer 's' is NULL or empty", 4, size)
    ELSE IF st_empty(key)
    THEN Checked("Key stringer 'key' is NULL or empty", 5, size)
    ELSE IF ~output.present
    THEN Checked("Input stringer 'output' is NULL", 6, size)
    ELSE IF ~st_valid_destination(output)
    THEN Checked("Cannot write to stringer", 7, size)
    ELSE Checked("", 7, size)

\* The checks with the test of the key reading the input a second time.
Validate_KeyTestOnInput(rounds, digest, s, key, output) ==
    IF rounds < 1 THEN Checked("rounds must be > 0", 1, 0)
    ELSE IF ~digest.present THEN Checked("Digest algorithm is NULL", 2, 0)
    ELSE LET size == EVP_MD_size_d(digest) IN
    IF size < 1
    THEN Checked("EVP_MD_size_d() returned invalid size for digest algorithm", 3, size)
    ELSE IF st_empty(s)
    THEN Checked("Input stringer 's' is NULL or empty", 4, size)
    ELSE IF st_empty(s)
    THEN Checked("Key stringer 'key' is NULL or empty", 5, size)
    ELSE IF ~output.present
    THEN Checked("Input stringer 'output' is NULL", 6, size)
    ELSE IF ~st_valid_destination(output)
    THEN Checked("Cannot write to stringer", 7, size)
    ELSE IF buffer_size_get(output) < ToSizeT(size)
    THEN Checked("'output' stringer is too small", 8, size)
    ELSE Checked("", 8, size)

\* The checks without the test of rounds.
Validate_NoRoundsCheck(rounds, digest, s, key, output) ==
    IF ~digest.present THEN Checked("Digest algorithm is NULL", 2, 0)
    ELSE LET size == EVP_MD_size_d(digest) IN
    IF size < 1
    THEN Checked("EVP_MD_size_d() returned invalid size for digest algorithm", 3, size)
    ELSE IF st_empty(s)
    THEN Checked("Input stringer 's' is NULL or empty", 4, size)
    ELSE IF st_empty(key)
    THEN Checked("Key stringer 'key' is NULL or empty", 5, size)
    ELSE IF ~output.present
    THEN Checked("Input stringer 'output' is NULL", 6, size)
    ELSE IF ~st_valid_destination(output)
    THEN Checked("Cannot write to stringer", 7, size)
    ELSE IF buffer_size_get(output) < ToSizeT(size)
    THEN Checked("'output' stringer is too small", 8, size)
    ELSE Checked("", 8, size)

\* The checks of hmac_multi_digest_nonnull_output, lines 54-100, in order.
\* output is the stringer the pointer names, or [present |-> FALSE] for NULL.
Validate(rounds, digest, s, key, output) ==
    IF rounds < 1 THEN Checked("rounds must be > 0", 1, 0)
    ELSE IF ~digest.present THEN Checked("Digest algorithm is NULL", 2, 0)
    ELSE LET size == EVP_MD_size_d(digest) IN
    IF size < 1
    THEN Checked("EVP_MD_size_d() returned invalid size for digest algorithm", 3, size)
    ELSE IF st_empty(s)
    THEN Checked("Input stringer 's' is NULL or empty", 4, size)
    ELSE IF st_empty(key)
    THEN Checked("Key stringer 'key' is NULL or empty", 5, size)
    ELSE IF ~output.present
    THEN Checked("Input stringer 'output' is NULL", 6, size)
    ELSE IF ~st_valid_destination(output)
    THEN Checked("Cannot write to stringer", 7, size)
    ELSE IF buffer_size_get(output) < ToSizeT(size)
    THEN Checked("'output' stringer is too small", 8, size)
    ELSE Checked("", 8, size)

----------------------------------------------------------------------------
(* The arguments a caller may pass *)

\* Spec follows one call.
Calls == {1}

Absent == [present |-> FALSE]

Digests ==
    {Absent} \cup
    {[present |-> TRUE, size |-> n] : n \in {-1, 0, MaxDigest - 1, MaxDigest}}

Inputs == {Absent, [present |-> TRUE, bytes |-> <<>>],
           [present |-> TRUE, bytes |-> <<1, 2>>]}

Keys == {Absent, [present |-> TRUE, bytes |-> <<>>],
         [present |-> TRUE, bytes |-> <<3>>]}

\* A stringer a caller may supply: without AVAILABLE its capacity is its length.
Outputs ==
    {Absent} \cup
    {o \in {[present |-> TRUE, avail |-> a, dest |-> d, tracked |-> t,
             length |-> l, capacity |-> k, data |-> Stale(k)]
            : a \in BOOLEAN, d \in BOOLEAN, t \in BOOLEAN,
              l \in 0..MaxBuf, k \in 0..MaxBuf}
     : IF o.avail THEN o.length <= o.capacity ELSE o.length = o.capacity}

\* The integer a caller writes for rounds; hmac_digest takes none.
Arguments ==
    {[api |-> "hmac_multi_digest", rounds |-> r, digest |-> d, s |-> s,
      key |-> k, output |-> o]
     : r \in -1..MaxRounds, d \in Digests, s \in Inputs, k \in Keys,
       o \in Outputs}
    \cup
    {[api |-> "hmac_digest", rounds |-> 1, digest |-> d, s |-> s,
      key |-> k, output |-> o]
     : d \in Digests, s \in Inputs, k \in Keys, o \in Outputs}

NoLocals ==
    [rounds |-> 0, output |-> NULL, digest_output_size |-> 0,
     null_size |-> 0, alloced_output |-> NULL, i |-> 0,
     hmac_output_size |-> 0, checks |-> 0, result |-> NULL, ret |-> NULL]

NoCtx == [state |-> "none", key |-> <<>>, fed |-> <<>>, inits |-> 0,
          cleanups |-> 0]

\* The state of the calls before their first step, given their arguments.
InitState(calls) ==
    /\ pc = [c \in calls |-> "start"]
    /\ loc = [c \in calls |-> NoLocals]
    /\ buf = [c \in calls |->
                IF arg[c].output.present
                THEN [p \in {"caller"} |-> arg[c].output]
                ELSE [p \in {} |-> Absent]]
    /\ ctx = [c \in calls |-> NoCtx]
    /\ ops = [c \in calls |-> <<>>]
    /\ log = [c \in calls |-> <<>>]
    /\ freed = [c \in calls |-> <<>>]
    /\ before = [c \in calls |-> arg[c].output]

InitWith(calls) ==
    /\ arg \in [calls -> Arguments]
    /\ InitState(calls)

Init == InitWith(Calls)

\* The stringer pointer p names in call c.
Deref(c, p) == IF p \in DOMAIN buf[c] THEN buf[c][p] ELSE Absent

----------------------------------------------------------------------------
(* Entry points *)

\* hmac_digest passing 2 for rounds.
hmac_digest_two_rounds ==
    \E c \in DOMAIN pc :
    /\ pc[c] = "start"
    /\ arg[c].api = "hmac_digest"
    /\ loc' = [loc EXCEPT ![c].rounds = 2]
    /\ pc' = [pc EXCEPT ![c] = "dispatch"]
    /\ UNCHANGED <<arg, buf, ctx, ops, log, freed, before>>

\* hmac_digest (lines 237-240): hmac_multi_digest with rounds = 1.
hmac_digest ==
    \E c \in DOMAIN pc :
    /\ pc[c] = "start"
    /\ arg[c].api = "hmac_digest"
    /\ loc' = [loc EXCEPT ![c].rounds = 1]
    /\ pc' = [pc EXCEPT ![c] = "dispatch"]
    /\ UNCHANGED <<arg, buf, ctx, ops, log, freed, before>>

\* A direct call of hmac_multi_digest (lines 201-207): the caller's integer
\* becomes the uint_t parameter.
hmac_multi_digest_call ==
    \E c \in DOMAIN pc :
    /\ pc[c] = "start"
    /\ arg[c].api = "hmac_multi_digest"
    /\ loc' = [loc EXCEPT ![c].rounds = ToUInt(arg[c].rounds)]
    /\ pc' = [pc EXCEPT ![c] = "dispatch"]
    /\ UNCHANGED <<arg, buf, ctx, ops, log, freed, before>>

\* hmac_multi_digest (lines 209-224): the choice of the path.
hmac_multi_digest ==
    \E c \in DOMAIN pc :
    /\ pc[c] = "dispatch"
    /\ IF ~arg[c].output.present
       THEN /\ pc' = [pc EXCEPT ![c] = "null_size"]
            /\ loc' = loc
       ELSE /\ pc' = [pc EXCEPT ![c] = "validate"]
            /\ loc' = [loc EXCEPT ![c].output = "caller"]
    /\ UNCHANGED <<arg, buf, ctx, ops, log, freed, before>>

----------------------------------------------------------------------------
(* hmac_multi_digest_null_output *)

\* Line 163: the size is read from the algorithm before anything is checked.
null_output_size ==
    \E c \in DOMAIN pc :
    /\ pc[c] = "null_size"
    /\ loc' = [loc EXCEPT ![c].null_size = EVP_MD_size_d(arg[c].digest)]
    /\ ops' = [ops EXCEPT ![c] = Append(@, Called("EVP_MD_size_d", EVP_MD_size_d(arg[c].digest), 0))]
    /\ pc' = [pc EXCEPT ![c] = "null_alloc"]
    /\ UNCHANGED <<arg, buf, ctx, log, freed, before>>

\* The allocation without the test of line 165: the validated path is
\* called with whatever st_alloc returned.
null_output_alloc_unchecked ==
    \E c \in DOMAIN pc :
    /\ pc[c] = "null_alloc"
    /\ \E st \in st_alloc(ToSizeT(loc[c].null_size)) :
         /\ ops' = [ops EXCEPT ![c] = Append(@, Called("st_alloc", IF st.present THEN 1 ELSE 0,
                                   ToSizeT(loc[c].null_size)))]
         /\ IF ~st.present
            THEN /\ loc' = [loc EXCEPT ![c].alloced_output = "alloc"]
                 /\ UNCHANGED <<buf, before>>
            ELSE /\ buf' = [buf EXCEPT ![c] = [p \in {"alloc"} |-> st]]
                 /\ before' = [before EXCEPT ![c] = st]
                 /\ loc' = [loc EXCEPT ![c].alloced_output = "alloc",
                                       ![c].output = "alloc"]
         /\ pc' = [pc EXCEPT ![c] = "validate"]
         /\ log' = log
    /\ UNCHANGED <<arg, ctx, freed>>

\* Lines 164-176: st_alloc(digest_output_size), then the validated path on
\* the new stringer, or the error return of lines 165-168 and 186-187.
null_output_alloc ==
    \E c \in DOMAIN pc :
    /\ pc[c] = "null_alloc"
    /\ \E st \in st_alloc(ToSizeT(loc[c].null_size)) :
         /\ ops' = [ops EXCEPT ![c] = Append(@, Called("st_alloc", IF st.present THEN 1 ELSE 0,
                                   ToSizeT(loc[c].null_size)))]
         /\ IF ~st.present
            THEN /\ log' = [log EXCEPT ![c] = Append(@, "st_alloc() failed for 'output'")]
                 /\ loc' = [loc EXCEPT ![c].ret = NULL]
                 /\ pc' = [pc EXCEPT ![c] = "done"]
                 /\ UNCHANGED <<buf, before>>
            ELSE /\ buf' = [buf EXCEPT ![c] = [p \in {"alloc"} |-> st]]
                 /\ before' = [before EXCEPT ![c] = st]
                 /\ loc' = [loc EXCEPT ![c].alloced_output = "alloc",
                                       ![c].output = "alloc"]
                 /\ pc' = [pc EXCEPT ![c] = "validate"]
                 /\ log' = log
    /\ UNCHANGED <<arg, ctx, freed>>

\* The return of the allocating path without the st_free of line 185.
null_output_return_leak ==
    \E c \in DOMAIN pc :
    /\ pc[c] = "returned"
    /\ loc[c].alloced_output # NULL
    /\ loc' = [loc EXCEPT ![c].ret = loc[c].result]
    /\ pc' = [pc EXCEPT ![c] = "done"]
    /\ UNCHANGED <<arg, buf, ctx, ops, log, freed, before>>

\* Lines 178-187: the result of the validated path is returned, or the
\* allocated stringer is freed and NULL returned.
null_output_return ==
    \E c \in DOMAIN pc :
    /\ pc[c] = "returned"
    /\ loc[c].alloced_output # NULL
    /\ IF loc[c].result = NULL
       THEN /\ freed' = [freed EXCEPT ![c] = Append(@, loc[c].alloced_output)]
            /\ ops' = [ops EXCEPT ![c] = Append(@, Called("st_free", 1, 0))]
            /\ loc' = [loc EXCEPT ![c].ret = NULL]
       ELSE /\ loc' = [loc EXCEPT ![c].ret = loc[c].result]
            /\ UNCHANGED <<freed, ops>>
    /\ pc' = [pc EXCEPT ![c] = "done"]
    /\ UNCHANGED <<arg, buf, ctx, log, before>>

\* The return with a caller's output freeing that output on failure, as the
\* allocating path frees its own.
nonnull_output_return_frees ==
    \E c \in DOMAIN pc :
    /\ pc[c] = "returned"
    /\ loc[c].alloced_output = NULL
    /\ IF loc[c].result = NULL
       THEN /\ freed' = [freed EXCEPT ![c] = Append(@, loc[c].output)]
            /\ ops' = [ops EXCEPT ![c] = Append(@, Called("st_free", 1, 0))]
       ELSE UNCHANGED <<freed, ops>>
    /\ loc' = [loc EXCEPT ![c].ret = loc[c].result]
    /\ pc' = [pc EXCEPT ![c] = "done"]
    /\ UNCHANGED <<arg, buf, ctx, log, before>>

\* Lines 217-226: with a caller's output the result of the validated path is
\* returned as it is.
nonnull_output_return ==
    \E c \in DOMAIN pc :
    /\ pc[c] = "returned"
    /\ loc[c].alloced_output = NULL
    /\ loc' = [loc EXCEPT ![c].ret = loc[c].result]
    /\ pc' = [pc EXCEPT ![c] = "done"]
    /\ UNCHANGED <<arg, buf, ctx, ops, log, freed, before>>

----------------------------------------------------------------------------
(* hmac_multi_digest_nonnull_output *)

\* Lines 54-100, and the error return of lines 147-148.
nonnull_output_validate ==
    \E c \in DOMAIN pc :
    /\ pc[c] = "validate"
    /\ LET v == Validate(loc[c].rounds, arg[c].digest, arg[c].s, arg[c].key,
                         Deref(c, loc[c].output))
       IN  /\ ops' = [ops EXCEPT ![c] =
                        IF v.checks >= 3
                        THEN Append(@, Called("EVP_MD_size_d", v.size, 0))
                        ELSE @]
           /\ IF v.msg # ""
              THEN /\ log' = [log EXCEPT ![c] = Append(@, v.msg)]
                   /\ loc' = [loc EXCEPT ![c].digest_output_size = v.size,
                                         ![c].checks = v.checks,
                                         ![c].result = NULL]
                   /\ pc' = [pc EXCEPT ![c] = "returned"]
              ELSE /\ log' = log
                   /\ loc' = [loc EXCEPT ![c].digest_output_size = v.size,
                                         ![c].checks = v.checks]
                   /\ pc' = [pc EXCEPT ![c] = "ctx_init"]
    /\ UNCHANGED <<arg, buf, ctx, freed, before>>

\* Line 102: HMAC_CTX_init_d(&ctx).
nonnull_output_ctx_init ==
    \E c \in DOMAIN pc :
    /\ pc[c] = "ctx_init"
    /\ ctx' = [ctx EXCEPT ![c].state = "init", ![c].inits = @ + 1]
    /\ ops' = [ops EXCEPT ![c] = Append(@, Called("HMAC_CTX_init_d", 1, 0))]
    /\ pc' = [pc EXCEPT ![c] = "hmac_init"]
    /\ UNCHANGED <<arg, loc, buf, log, freed, before>>

\* HMAC_Init_ex_d without the test of line 104: the rounds follow whatever
\* it returned.
nonnull_output_hmac_init_unchecked ==
    \E c \in DOMAIN pc :
    /\ pc[c] = "hmac_init"
    /\ \E rc \in {0, 1} :
         /\ ops' = [ops EXCEPT ![c] = Append(@, Called("HMAC_Init_ex_d", rc, Len(arg[c].key.bytes)))]
         /\ ctx' = [ctx EXCEPT ![c].state = IF rc = 1 THEN "keyed" ELSE @,
                               ![c].key = IF rc = 1 THEN arg[c].key.bytes ELSE @]
         /\ loc' = [loc EXCEPT ![c].i = 0]
         /\ pc' = [pc EXCEPT ![c] =
                     IF 0 < loc[c].rounds THEN "update" ELSE "final"]
         /\ log' = log
    /\ UNCHANGED <<arg, buf, freed, before>>

\* Lines 104-114: HMAC_Init_ex_d with the whole key, then the loop's first
\* test.
nonnull_output_hmac_init ==
    \E c \in DOMAIN pc :
    /\ pc[c] = "hmac_init"
    /\ \E rc \in {0, 1} :
         /\ ops' = [ops EXCEPT ![c] = Append(@, Called("HMAC_Init_ex_d", rc, Len(arg[c].key.bytes)))]
         /\ IF rc # 1
            THEN /\ log' = [log EXCEPT ![c] = Append(@, "Failed HMAC_Init_ex_d()")]
                 /\ pc' = [pc EXCEPT ![c] = "cleanup_ctx"]
                 /\ UNCHANGED <<ctx, loc>>
            ELSE /\ ctx' = [ctx EXCEPT ![c].state = "keyed",
                                       ![c].key = arg[c].key.bytes]
                 /\ loc' = [loc EXCEPT ![c].i = 0]
                 /\ pc' = [pc EXCEPT ![c] =
                             IF 0 < loc[c].rounds THEN "update" ELSE "final"]
                 /\ log' = log
    /\ UNCHANGED <<arg, buf, freed, before>>

\* A round that does not test what HMAC_Update_d returned.
nonnull_output_hmac_update_unchecked ==
    \E c \in DOMAIN pc :
    /\ pc[c] = "update"
    /\ \E rc \in {0, 1} :
         /\ ops' = [ops EXCEPT ![c] =
                      Append(@, Called("HMAC_Update_d", rc, Len(arg[c].s.bytes)))]
         /\ ctx' = [ctx EXCEPT ![c].fed =
                      IF rc = 1 THEN @ \o arg[c].s.bytes ELSE @]
         /\ loc' = [loc EXCEPT ![c].i = @ + 1]
         /\ pc' = [pc EXCEPT ![c] =
                     IF loc[c].i + 1 < loc[c].rounds THEN "update" ELSE "final"]
    /\ UNCHANGED <<arg, buf, log, freed, before>>

\* A round with the context in static storage, one for all calls, instead of
\* on the stack of the call (line 48).
nonnull_output_hmac_update_static_ctx ==
    \E c \in DOMAIN pc :
    /\ pc[c] = "update"
    /\ \E rc \in {0, 1} :
         /\ ops' = [ops EXCEPT ![c] =
                      Append(@, Called("HMAC_Update_d", rc, Len(arg[c].s.bytes)))]
         /\ IF rc # 1
            THEN /\ log' = [log EXCEPT ![c] = Append(@, "Failed HMAC_Update_d()")]
                 /\ pc' = [pc EXCEPT ![c] = "cleanup_ctx"]
                 /\ UNCHANGED <<ctx, loc>>
            ELSE /\ ctx' = [d \in DOMAIN ctx |->
                              [ctx[d] EXCEPT !.fed = @ \o arg[c].s.bytes]]
                 /\ loc' = [loc EXCEPT ![c].i = @ + 1]
                 /\ pc' = [pc EXCEPT ![c] =
                             IF loc[c].i + 1 < loc[c].rounds THEN "update"
                             ELSE "final"]
                 /\ log' = log
    /\ UNCHANGED <<arg, buf, freed, before>>

\* One update and no loop: an if where the for of line 114 stands.
nonnull_output_hmac_update_once ==
    \E c \in DOMAIN pc :
    /\ pc[c] = "update"
    /\ \E rc \in {0, 1} :
         /\ ops' = [ops EXCEPT ![c] =
                      Append(@, Called("HMAC_Update_d", rc, Len(arg[c].s.bytes)))]
         /\ IF rc # 1
            THEN /\ log' = [log EXCEPT ![c] = Append(@, "Failed HMAC_Update_d()")]
                 /\ pc' = [pc EXCEPT ![c] = "cleanup_ctx"]
                 /\ UNCHANGED <<ctx, loc>>
            ELSE /\ ctx' = [ctx EXCEPT ![c].fed = @ \o arg[c].s.bytes]
                 /\ loc' = [loc EXCEPT ![c].i = @ + 1]
                 /\ pc' = [pc EXCEPT ![c] = "final"]
                 /\ log' = log
    /\ UNCHANGED <<arg, buf, freed, before>>

\* Lines 114-122: one round, HMAC_Update_d over the whole of s, then i++ and
\* the loop's test.
nonnull_output_hmac_update ==
    \E c \in DOMAIN pc :
    /\ pc[c] = "update"
    /\ \E rc \in {0, 1} :
         /\ ops' = [ops EXCEPT ![c] = Append(@, Called("HMAC_Update_d", rc, Len(arg[c].s.bytes)))]
         /\ IF rc # 1
            THEN /\ log' = [log EXCEPT ![c] = Append(@, "Failed HMAC_Update_d()")]
                 /\ pc' = [pc EXCEPT ![c] = "cleanup_ctx"]
                 /\ UNCHANGED <<ctx, loc>>
            ELSE /\ ctx' = [ctx EXCEPT ![c].fed = @ \o arg[c].s.bytes]
                 /\ loc' = [loc EXCEPT ![c].i = @ + 1]
                 /\ pc' = [pc EXCEPT ![c] =
                             IF loc[c].i + 1 < loc[c].rounds THEN "update"
                             ELSE "final"]
                 /\ log' = log
    /\ UNCHANGED <<arg, buf, freed, before>>

\* The length set on success whether or not the stringer tracks it.
AfterFinal_AlwaysSet(st, mac, out, size) ==
    LET written == [st EXCEPT !.data = Overwrite(@, SubSeq(mac, 1, out.wrote))]
    IN  IF out.rc = 1 /\ ToUInt(size) = out.len
        THEN st_length_set(written, ToSizeT(size))
        ELSE written

\* The length never set.
AfterFinal_NeverSet(st, mac, out, size) ==
    [st EXCEPT !.data = Overwrite(@, SubSeq(mac, 1, out.wrote))]

\* The length set as soon as HMAC_Final_d returned 1, ahead of the size test
\* of line 132.
AfterFinal_SetBeforeSizeTest(st, mac, out, size) ==
    LET written == [st EXCEPT !.data = Overwrite(@, SubSeq(mac, 1, out.wrote))]
    IN  IF out.rc = 1 /\ st_valid_tracked(st)
        THEN st_length_set(written, ToSizeT(size))
        ELSE written

\* The stringer after HMAC_Final_d wrote through st_data_get(output) and, on
\* success, lines 132-140 ran: the length is set only when every test passed
\* and the stringer tracks its length.
AfterFinal(st, mac, out, size) ==
    LET written == [st EXCEPT !.data = Overwrite(@, SubSeq(mac, 1, out.wrote))]
    IN  IF out.rc = 1 /\ ToUInt(size) = out.len /\ st_valid_tracked(st)
        THEN st_length_set(written, ToSizeT(size))
        ELSE written

\* HMAC_Final_d without the size test of lines 132-135.
nonnull_output_hmac_final_no_size_test ==
    \E c \in DOMAIN pc :
    /\ pc[c] = "final"
    /\ LET p == loc[c].output
           size == loc[c].digest_output_size
           st == buf[c][p]
       IN \E out \in HMAC_Final_outcomes(size, Len(st.data)) :
            LET mac == Mac(ctx[c].key, ctx[c].fed, out.wrote) IN
            /\ ops' = [ops EXCEPT ![c] = Append(@, Called("HMAC_Final_d", out.rc, out.len))]
            /\ buf' = [buf EXCEPT ![c][p] = AfterFinal(st, mac, out, size)]
            /\ loc' = [loc EXCEPT ![c].hmac_output_size =
                                     IF out.rc = 1 THEN out.len ELSE @]
            /\ ctx' = [ctx EXCEPT ![c].state = IF out.rc = 1 THEN "final" ELSE @]
            /\ IF out.rc # 1
               THEN /\ log' = [log EXCEPT ![c] = Append(@, "Failed HMAC_Final_d()")]
                    /\ pc' = [pc EXCEPT ![c] = "cleanup_ctx"]
               ELSE /\ log' = log
                    /\ pc' = [pc EXCEPT ![c] = "cleanup_ok"]
    /\ UNCHANGED <<arg, freed, before>>

\* Lines 124-140: HMAC_Final_d into the output's storage from offset 0, the
\* size test, and the length update.
nonnull_output_hmac_final ==
    \E c \in DOMAIN pc :
    /\ pc[c] = "final"
    /\ LET p == loc[c].output
           size == loc[c].digest_output_size
           st == buf[c][p]
       IN \E out \in HMAC_Final_outcomes(size, Len(st.data)) :
            LET mac == Mac(ctx[c].key, ctx[c].fed, out.wrote) IN
            /\ ops' = [ops EXCEPT ![c] = Append(@, Called("HMAC_Final_d", out.rc, out.len))]
            /\ buf' = [buf EXCEPT ![c][p] = AfterFinal(st, mac, out, size)]
            /\ loc' = [loc EXCEPT ![c].hmac_output_size =
                                     IF out.rc = 1 THEN out.len ELSE @]
            /\ ctx' = [ctx EXCEPT ![c].state = IF out.rc = 1 THEN "final" ELSE @]
            /\ IF out.rc # 1
               THEN /\ log' = [log EXCEPT ![c] = Append(@, "Failed HMAC_Final_d()")]
                    /\ pc' = [pc EXCEPT ![c] = "cleanup_ctx"]
               ELSE IF ToUInt(size) # out.len
               THEN /\ log' = [log EXCEPT ![c] =
                                 Append(@, "HMAC output size does not match digest output size")]
                    /\ pc' = [pc EXCEPT ![c] = "cleanup_ctx"]
               ELSE /\ log' = log
                    /\ pc' = [pc EXCEPT ![c] = "cleanup_ok"]
    /\ UNCHANGED <<arg, freed, before>>

\* The success exit without the return of line 143, falling through to the
\* cleanup_ctx label.
nonnull_output_success_fallthrough ==
    \E c \in DOMAIN pc :
    /\ pc[c] = "cleanup_ok"
    /\ ctx' = [ctx EXCEPT ![c].state = "clean", ![c].cleanups = @ + 1]
    /\ ops' = [ops EXCEPT ![c] = Append(@, Called("HMAC_CTX_cleanup_d", 1, 0))]
    /\ loc' = [loc EXCEPT ![c].result = loc[c].output]
    /\ pc' = [pc EXCEPT ![c] = "cleanup_ctx"]
    /\ UNCHANGED <<arg, buf, log, freed, before>>

\* Lines 142-143: the context is cleaned up and output returned.
nonnull_output_success ==
    \E c \in DOMAIN pc :
    /\ pc[c] = "cleanup_ok"
    /\ ctx' = [ctx EXCEPT ![c].state = "clean", ![c].cleanups = @ + 1]
    /\ ops' = [ops EXCEPT ![c] = Append(@, Called("HMAC_CTX_cleanup_d", 1, 0))]
    /\ loc' = [loc EXCEPT ![c].result = loc[c].output]
    /\ pc' = [pc EXCEPT ![c] = "returned"]
    /\ UNCHANGED <<arg, buf, log, freed, before>>

\* The failure exit jumping to the error label, past the cleanup of line 146.
nonnull_output_cleanup_ctx_skipped ==
    \E c \in DOMAIN pc :
    /\ pc[c] = "cleanup_ctx"
    /\ loc' = [loc EXCEPT ![c].result = NULL]
    /\ pc' = [pc EXCEPT ![c] = "returned"]
    /\ UNCHANGED <<arg, buf, ctx, ops, log, freed, before>>

\* Lines 145-148: the context is cleaned up and NULL returned.
nonnull_output_cleanup_ctx ==
    \E c \in DOMAIN pc :
    /\ pc[c] = "cleanup_ctx"
    /\ ctx' = [ctx EXCEPT ![c].state = "clean", ![c].cleanups = @ + 1]
    /\ ops' = [ops EXCEPT ![c] = Append(@, Called("HMAC_CTX_cleanup_d", 1, 0))]
    /\ loc' = [loc EXCEPT ![c].result = NULL]
    /\ pc' = [pc EXCEPT ![c] = "returned"]
    /\ UNCHANGED <<arg, buf, log, freed, before>>

----------------------------------------------------------------------------

Next ==
    \/ hmac_digest
    \/ hmac_multi_digest_call
    \/ hmac_multi_digest
    \/ null_output_size
    \/ null_output_alloc
    \/ null_output_return
    \/ nonnull_output_return
    \/ nonnull_output_validate
    \/ nonnull_output_ctx_init
    \/ nonnull_output_hmac_init
    \/ nonnull_output_hmac_update
    \/ nonnull_output_hmac_final
    \/ nonnull_output_success
    \/ nonnull_output_cleanup_ctx

Spec == Init /\ [][Next]_vars

\* Two calls with the same algorithm, input, key and output argument (each
\* its own stringer, with the same contents): call 1 enters by hmac_digest,
\* call 2 by hmac_multi_digest with rounds = 1.
InitPair ==
    /\ \E a \in {x \in Arguments : x.api = "hmac_digest"} :
         arg = [c \in {1, 2} |->
                  IF c = 1 THEN a
                  ELSE [a EXCEPT !.api = "hmac_multi_digest", !.rounds = 1]]
    /\ InitState({1, 2})

SpecPair == InitPair /\ [][Next]_vars

\* Two calls in flight at once on independent arguments: call 1 runs two
\* rounds into a tracked stringer of its caller or into one it allocates,
\* call 2 one round into a fixed untracked stringer that is large enough, or
\* too small.
ConcurrentArguments ==
    [c \in {1, 2} |->
       IF c = 1
       THEN {[api |-> "hmac_multi_digest", rounds |-> 2,
              digest |-> [present |-> TRUE, size |-> MaxDigest - 1],
              s |-> [present |-> TRUE, bytes |-> <<1, 2>>],
              key |-> [present |-> TRUE, bytes |-> <<3>>],
              output |-> o]
             : o \in {Absent,
                      [present |-> TRUE, avail |-> TRUE, dest |-> TRUE,
                       tracked |-> TRUE, length |-> 0, capacity |-> MaxBuf,
                       data |-> Stale(MaxBuf)]}}
       ELSE {[api |-> "hmac_digest", rounds |-> 1,
              digest |-> [present |-> TRUE, size |-> MaxDigest],
              s |-> [present |-> TRUE, bytes |-> <<2>>],
              key |-> [present |-> TRUE, bytes |-> <<4, 1>>],
              output |-> [present |-> TRUE, avail |-> FALSE, dest |-> TRUE,
                          tracked |-> FALSE, length |-> l, capacity |-> l,
                          data |-> Stale(l)]]
             : l \in {MaxDigest - 1, MaxDigest}}]

InitConcurrent ==
    /\ arg \in [{1, 2} -> UNION {ConcurrentArguments[c] : c \in {1, 2}}]
    /\ \A c \in {1, 2} : arg[c] \in ConcurrentArguments[c]
    /\ InitState({1, 2})

SpecConcurrent == InitConcurrent /\ [][Next]_vars

----------------------------------------------------------------------------
(* Vocabulary of the properties *)

\* The call was given an output stringer by its caller.
Caller(c) == arg[c].output.present

\* The size the algorithm of call c declares (-1 for an absent handle).
DeclaredSize(c) == IF arg[c].digest.present THEN arg[c].digest.size ELSE -1

\* The effective available size of a stringer: its capacity with AVAILABLE,
\* its length without.
EffectiveSize(o) == IF o.avail THEN o.capacity ELSE o.length

\* The preconditions of the validated path that call c violates, numbered in
\* the order of the specification: 1 rounds, 2 algorithm, 3 input, 4 key,
\* 5 output.
Violated(c) ==
    {k \in 1..5 :
       \/ k = 1 /\ loc[c].rounds < 1
       \/ k = 2 /\ DeclaredSize(c) < 1
       \/ k = 3 /\ ~(arg[c].s.present /\ Len(arg[c].s.bytes) > 0)
       \/ k = 4 /\ ~(arg[c].key.present /\ Len(arg[c].key.bytes) > 0)
       \/ k = 5 /\ ~(/\ before[c].present
                     /\ before[c].dest
                     /\ EffectiveSize(before[c]) >= DeclaredSize(c))}

Earliest(S) == CHOOSE k \in S : \A j \in S : k <= j

\* The messages that report each precondition, and the checks that test it.
MessagesOf(k) ==
    CASE k = 1 -> {"rounds must be > 0"}
      [] k = 2 -> {"Digest algorithm is NULL",
                   "EVP_MD_size_d() returned invalid size for digest algorithm"}
      [] k = 3 -> {"Input stringer 's' is NULL or empty"}
      [] k = 4 -> {"Key stringer 'key' is NULL or empty"}
      [] k = 5 -> {"Input stringer 'output' is NULL",
                   "Cannot write to stringer",
                   "'output' stringer is too small"}

ChecksOf(k) ==
    CASE k = 1 -> {1} [] k = 2 -> {2, 3} [] k = 3 -> {4} [] k = 4 -> {5}
      [] k = 5 -> {6, 7, 8}

ValidationMessages == UNION {MessagesOf(k) : k \in 1..5}

\* The library calls of call c to one of the functions in fs.
CallsTo(c, fs) == {i \in DOMAIN ops[c] : ops[c][i].f \in fs}

HmacFunctions == {"HMAC_CTX_init_d", "HMAC_Init_ex_d", "HMAC_Update_d",
                  "HMAC_Final_d", "HMAC_CTX_cleanup_d"}

\* Every HMAC primitive call c made so far succeeded, and HMAC_Final_d reported
\* the declared size.
WellBehaved(c) ==
    \A i \in DOMAIN ops[c] :
        /\ ops[c][i].f \in {"HMAC_Init_ex_d", "HMAC_Update_d", "HMAC_Final_d"}
             => ops[c][i].rc = 1
        /\ ops[c][i].f = "HMAC_Final_d" => ops[c][i].n = DeclaredSize(c)

\* The arguments other than output are valid.
OthersValid(c) == Violated(c) \subseteq {5}

----------------------------------------------------------------------------
(* C1: once the validated path has run its checks, a call that violates    *)
(* any precondition has failed, the one message logged is the message of   *)
(* the earliest violated precondition in the order rounds, algorithm,      *)
(* input, key, output, and no check after the failing one was evaluated;   *)
(* a call that violates none has logged no validation message.             *)
C1_ValidationOrder ==
    \A c \in DOMAIN pc :
        loc[c].checks > 0 =>
            IF Violated(c) = {}
            THEN \A i \in DOMAIN log[c] : log[c][i] \notin ValidationMessages
            ELSE LET k == Earliest(Violated(c)) IN
                 /\ pc[c] \in {"returned", "done"}
                 /\ loc[c].result = NULL
                 /\ pc[c] = "done" => loc[c].ret = NULL
                 /\ Len(log[c]) = 1
                 /\ log[c][1] \in MessagesOf(k)
                 /\ loc[c].checks \in ChecksOf(k)
                 /\ CallsTo(c, HmacFunctions) = {}

\* A call that violated the input, key and output preconditions at once has
\* returned.
C1_Witness ==
    \E c \in DOMAIN pc :
        /\ pc[c] = "done"
        /\ loc[c].checks > 0
        /\ Violated(c) = {3, 4, 5}
        /\ log[c] = <<"Input stringer 's' is NULL or empty">>

(* C2: with a caller-supplied output, the other arguments valid and a      *)
(* well-behaved primitive, a call succeeds when the effective available    *)
(* size (capacity with AVAILABLE, length without) equals the algorithm's   *)
(* size, fails as too small when it is smaller, and fails as not writable  *)
(* when DESTINATION is unset, whatever the size.                           *)
C2_SizeBoundary ==
    \A c \in DOMAIN pc :
        (pc[c] = "done" /\ Caller(c) /\ OthersValid(c)) =>
            LET o == arg[c].output
                e == EffectiveSize(o)
                n == DeclaredSize(c)
            IN  /\ ~o.dest =>
                     /\ loc[c].ret = NULL
                     /\ log[c] = <<"Cannot write to stringer">>
                /\ (o.dest /\ e < n) =>
                     /\ loc[c].ret = NULL
                     /\ log[c] = <<"'output' stringer is too small">>
                /\ (o.dest /\ e = n /\ WellBehaved(c)) =>
                     /\ loc[c].ret = "caller"
                     /\ log[c] = <<>>

\* A call succeeded on a stringer whose capacity, not its length, is the
\* algorithm's size.
C2_Witness ==
    \E c \in DOMAIN pc :
        /\ pc[c] = "done"
        /\ Caller(c)
        /\ arg[c].output.avail
        /\ arg[c].output.length < DeclaredSize(c)
        /\ arg[c].output.capacity = DeclaredSize(c)
        /\ loc[c].ret = "caller"

(* C3: on the allocating path nothing is freed before the call returns;    *)
(* when the call returns failure the stringer it allocated, if any, has    *)
(* been freed exactly once, and when it returns success that stringer has  *)
(* not been freed and is the value returned.                               *)
C3_NoLeak ==
    \A c \in DOMAIN pc :
        ~Caller(c) =>
            /\ pc[c] # "done" => freed[c] = <<>>
            /\ pc[c] = "done" =>
                 IF "alloc" \in DOMAIN buf[c]
                 THEN /\ loc[c].ret = NULL => freed[c] = <<"alloc">>
                      /\ loc[c].ret # NULL =>
                           /\ freed[c] = <<>>
                           /\ loc[c].ret = "alloc"
                 ELSE /\ freed[c] = <<>>
                      /\ loc[c].ret = NULL

\* A call on the allocating path failed on a size mismatch and freed its
\* stringer.
C3_Witness ==
    \E c \in DOMAIN pc :
        /\ pc[c] = "done"
        /\ ~Caller(c)
        /\ loc[c].ret = NULL
        /\ freed[c] = <<"alloc">>
        /\ \E i \in DOMAIN ops[c] :
             /\ ops[c][i].f = "HMAC_Final_d"
             /\ ops[c][i].rc = 1
             /\ ops[c][i].n # DeclaredSize(c)

(* C4: on the allocating path, when the algorithm's size does not resolve  *)
(* (the handle is absent or the size reported is not positive) the         *)
(* allocator is never invoked.                                             *)
C4_NoAllocOnInvalidSize ==
    \A c \in DOMAIN pc :
        (~Caller(c) /\ DeclaredSize(c) < 1) => CallsTo(c, {"st_alloc"}) = {}

(* C5: a call that has returned from the validated path has cleaned up     *)
(* every context it initialised: none is left unreleased on any exit.      *)
C5_ContextReleased ==
    \A c \in DOMAIN pc :
        pc[c] \in {"returned", "done"} =>
            /\ ctx[c].state \in {"none", "clean"}
            /\ ctx[c].cleanups = ctx[c].inits

\* A call whose HMAC_Final_d reported a mismatching size has returned with its
\* context cleaned up.
C5_Witness ==
    \E c \in DOMAIN pc :
        /\ pc[c] = "done"
        /\ ctx[c].inits = 1
        /\ ctx[c].state = "clean"
        /\ \E i \in DOMAIN ops[c] :
             /\ ops[c][i].f = "HMAC_Final_d"
             /\ ops[c][i].rc = 1
             /\ ops[c][i].n # DeclaredSize(c)

(* C6: after a successful call the output's recorded length is the         *)
(* algorithm's size when the stringer is TRACKED and what it was before    *)
(* the call when it is not; its capacity and flags are unchanged.          *)
C6_LengthFrame ==
    \A c \in DOMAIN pc :
        (pc[c] = "done" /\ loc[c].ret # NULL) =>
            LET b == buf[c][loc[c].ret]
                o == before[c]
            IN  /\ o.tracked => b.length = DeclaredSize(c)
                /\ ~o.tracked => b.length = o.length
                /\ b.capacity = o.capacity
                /\ b.avail = o.avail
                /\ b.dest = o.dest
                /\ b.tracked = o.tracked

\* A call succeeded on an untracked stringer whose length is not the
\* algorithm's size.
C6_Witness ==
    \E c \in DOMAIN pc :
        /\ pc[c] = "done"
        /\ loc[c].ret = "caller"
        /\ ~arg[c].output.tracked
        /\ arg[c].output.length # DeclaredSize(c)
        /\ buf[c]["caller"].length = arg[c].output.length

(* C7, as claimed: the length of the stringer a successful call returns is *)
(* the algorithm's declared size.                                          *)
C7_ReturnedLengthIsSize ==
    \A c \in DOMAIN pc :
        (pc[c] = "done" /\ loc[c].ret # NULL) =>
            buf[c][loc[c].ret].length = DeclaredSize(c)

(* C7, amended: the length of the stringer a successful call returns is    *)
(* the algorithm's declared size when the stringer is TRACKED; for an      *)
(* untracked stringer it is the length the stringer had when the validated *)
(* path received it, which without AVAILABLE is at least the declared size *)
(* and can exceed it.                                                      *)
C7_ReturnedLength ==
    \A c \in DOMAIN pc :
        (pc[c] = "done" /\ loc[c].ret # NULL) =>
            LET b == buf[c][loc[c].ret] IN
            /\ b.tracked => b.length = DeclaredSize(c)
            /\ ~b.tracked =>
                 /\ b.length = before[c].length
                 /\ ~b.avail => b.length >= DeclaredSize(c)

\* A call succeeded on an untracked fixed-size stringer longer than the
\* digest, and returned it with that length.
C7_Witness ==
    \E c \in DOMAIN pc :
        /\ pc[c] = "done"
        /\ loc[c].ret = "caller"
        /\ ~arg[c].output.tracked
        /\ ~arg[c].output.avail
        /\ buf[c]["caller"].length > DeclaredSize(c)

(* C8: when a call with a caller's output violates a precondition of the   *)
(* validated path, the stringer is as it was before the call (data,        *)
(* length, capacity, flags), no context is initialised and no HMAC         *)
(* function is invoked.                                                    *)
C8_ValidationFailureUntouched ==
    \A c \in DOMAIN pc :
        (Caller(c) /\ loc[c].checks > 0 /\ Violated(c) # {}) =>
            /\ buf[c]["caller"] = arg[c].output
            /\ ctx[c] = NoCtx
            /\ CallsTo(c, HmacFunctions) = {}

\* A call whose only fault is a writable output that is too small has
\* returned.
C8_Witness ==
    \E c \in DOMAIN pc :
        /\ pc[c] = "done"
        /\ Caller(c)
        /\ Violated(c) = {5}
        /\ arg[c].output.dest
        /\ log[c] = <<"'output' stringer is too small">>
        /\ loc[c].ret = NULL

(* C9, as claimed: whenever a call on a caller's output returns failure,   *)
(* the stringer's data bytes are what they were before the call.           *)
C9_FailureLeavesData ==
    \A c \in DOMAIN pc :
        (pc[c] = "done" /\ Caller(c) /\ loc[c].ret = NULL) =>
            buf[c]["caller"].data = arg[c].output.data

\* Call c violated a precondition, or HMAC_Init_ex_d or an HMAC_Update_d
\* failed in it.
FailedBeforeFinal(c) ==
    \/ Violated(c) # {}
    \/ \E i \in DOMAIN ops[c] :
         /\ ops[c][i].f \in {"HMAC_Init_ex_d", "HMAC_Update_d"}
         /\ ops[c][i].rc # 1

(* C9, amended: every failure is returned as a failure value, and when     *)
(* the failure comes before finalize (a validation check, context open or  *)
(* an update round) the data bytes of the caller's stringer are what they  *)
(* were before the call; a failing or mismatching finalize has already     *)
(* written into the stringer, whose length field alone is as it was.       *)
C9_FailureBeforeFinalLeavesData ==
    \A c \in DOMAIN pc :
        (pc[c] = "done" /\ Caller(c)) =>
            /\ (Violated(c) # {} \/ ~WellBehaved(c)) => loc[c].ret = NULL
            /\ FailedBeforeFinal(c) =>
                 buf[c]["caller"].data = arg[c].output.data
            /\ loc[c].ret = NULL =>
                 /\ buf[c]["caller"].length = arg[c].output.length
                 /\ Len(buf[c]["caller"].data) = Len(arg[c].output.data)

\* A call failed in its second update round and left the data as it was.
C9_Witness ==
    \E c \in DOMAIN pc :
        /\ pc[c] = "done"
        /\ Caller(c)
        /\ loc[c].ret = NULL
        /\ \E i, j \in DOMAIN ops[c] :
             /\ i < j
             /\ ops[c][i].f = "HMAC_Update_d" /\ ops[c][i].rc = 1
             /\ ops[c][j].f = "HMAC_Update_d" /\ ops[c][j].rc = 0
        /\ buf[c]["caller"].data = arg[c].output.data

(* C10: a stringer supplied by the caller is never handed to st_free, on   *)
(* success or on any failure, and a successful call returns that same      *)
(* stringer.                                                               *)
C10_CallerOutputNeverFreed ==
    \A c \in DOMAIN pc :
        Caller(c) =>
            /\ freed[c] = <<>>
            /\ CallsTo(c, {"st_free", "st_alloc"}) = {}
            /\ (pc[c] = "done" /\ loc[c].ret # NULL) => loc[c].ret = "caller"

\* A call on a caller's output failed in HMAC_Final_d and returned.
C10_Witness ==
    \E c \in DOMAIN pc :
        /\ pc[c] = "done"
        /\ Caller(c)
        /\ loc[c].ret = NULL
        /\ \E i \in DOMAIN ops[c] :
             ops[c][i].f = "HMAC_Final_d" /\ ops[c][i].rc = 0

\* The messages of the failures the specification calls InvalidArgument.
InvalidArgumentMessages ==
    MessagesOf(1) \cup MessagesOf(2) \cup MessagesOf(3) \cup MessagesOf(4)
    \cup {"Input stringer 'output' is NULL"}

Answer(op) == IF op.f = "HMAC_Final_d" THEN <<op.rc, op.n>> ELSE <<op.rc, 0>>

\* Calls 1 and 2 were answered alike in their first n library calls, and by
\* the allocator, if both allocated, with the same stringer.
AnsweredAlike(n) ==
    /\ \A j \in 1..n : Answer(ops[1][j]) = Answer(ops[2][j])
    /\ ("alloc" \in DOMAIN buf[1] /\ "alloc" \in DOMAIN buf[2]) =>
           before[1] = before[2]

Shorter(m, n) == IF m <= n THEN m ELSE n

\* HMAC_Final_d failed in call c (what it left in the output is then the
\* primitive's business).
FinalFailed(c) ==
    \E i \in DOMAIN ops[c] : ops[c][i].f = "HMAC_Final_d" /\ ops[c][i].rc # 1

(* C13: hmac_digest (call 1) and hmac_multi_digest with rounds = 1 (call   *)
(* 2), given the same algorithm, input, key and output-or-absent, behave   *)
(* alike: as long as the library answered both alike, the next library     *)
(* call of each is the same function with the same length argument, and    *)
(* when both have returned they made the same calls, logged the same,      *)
(* freed the same, returned the same pointer and left their output with    *)
(* the same bytes, length and flags.                                       *)
C13_SingleRoundEquivalence ==
    DOMAIN pc = {1, 2} =>
        LET m == Shorter(Len(ops[1]), Len(ops[2])) IN
        /\ \A i \in 1..m :
             AnsweredAlike(i - 1) =>
                 /\ ops[1][i].f = ops[2][i].f
                 /\ ops[1][i].f # "HMAC_Final_d" => ops[1][i].n = ops[2][i].n
        /\ (pc[1] = "done" /\ pc[2] = "done" /\ AnsweredAlike(m)) =>
             /\ loc[1].rounds = loc[2].rounds
             /\ ops[1] = ops[2]
             /\ log[1] = log[2]
             /\ freed[1] = freed[2]
             /\ loc[1].ret = loc[2].ret
             /\ ctx[1] = ctx[2]
             /\ DOMAIN buf[1] = DOMAIN buf[2]
             /\ \A p \in DOMAIN buf[1] :
                  IF FinalFailed(1)
                  THEN [buf[1][p] EXCEPT !.data = <<>>] =
                       [buf[2][p] EXCEPT !.data = <<>>]
                  ELSE buf[1][p] = buf[2][p]

\* Both entries succeeded on a tracked output and left the same MAC in it.
C13_Witness ==
    /\ DOMAIN pc = {1, 2}
    /\ pc[1] = "done" /\ pc[2] = "done"
    /\ loc[1].ret = "caller" /\ loc[2].ret = "caller"
    /\ arg[1].output.tracked
    /\ buf[1]["caller"] = buf[2]["caller"]
    /\ buf[1]["caller"].data # arg[1].output.data
    /\ ops[1] = ops[2]

RECURSIVE Repeat(_, _)
\* bytes concatenated with itself n times.
Repeat(bytes, n) == IF n = 0 THEN <<>> ELSE bytes \o Repeat(bytes, n - 1)

\* The rounds of call c whose HMAC_Update_d succeeded.
SuccessfulUpdates(c) ==
    Cardinality({i \in DOMAIN ops[c] :
                   ops[c][i].f = "HMAC_Update_d" /\ ops[c][i].rc = 1})

\* Call c has its arguments in order, got a stringer to write to, and the
\* primitive has not failed it.
Succeeds(c) ==
    /\ Violated(c) = {}
    /\ WellBehaved(c)
    /\ Caller(c) \/ "alloc" \in DOMAIN buf[c]

\* The bytes of an input or key argument (none when it is absent).
Bytes(x) == IF x.present THEN x.bytes ELSE <<>>

\* Call c stands where the same call, given the same answers by the library,
\* stands when no other call is in flight: its context holds its own key and
\* its own input once per successful round; its stringer is untouched before
\* HMAC_Final_d; and once returned, its outcome, output bytes, length, context
\* release and frees are those its own arguments and answers determine.
RunsAsAlone(c) ==
    /\ DOMAIN buf[c] \subseteq {IF Caller(c) THEN "caller" ELSE "alloc"}
    /\ ctx[c].key \in {<<>>, Bytes(arg[c].key)}
    /\ ctx[c].state \in {"keyed", "final"} => ctx[c].key = Bytes(arg[c].key)
    /\ ctx[c].fed = Repeat(Bytes(arg[c].s), SuccessfulUpdates(c))
    /\ ctx[c].cleanups <= ctx[c].inits /\ ctx[c].inits <= 1
    /\ CallsTo(c, {"HMAC_Final_d"}) = {} =>
           \A p \in DOMAIN buf[c] : buf[c][p] = before[c]
    /\ pc[c] = "done" =>
           /\ loc[c].ret # NULL <=> Succeeds(c)
           /\ ctx[c].cleanups = ctx[c].inits
           /\ freed[c] = IF "alloc" \in DOMAIN buf[c] /\ ~Succeeds(c)
                         THEN <<"alloc">> ELSE <<>>
           /\ Succeeds(c) =>
                LET b == buf[c][loc[c].ret]
                    n == DeclaredSize(c)
                    mac == Mac(Bytes(arg[c].key),
                               Repeat(Bytes(arg[c].s), loc[c].rounds), n)
                IN  /\ loc[c].ret = IF Caller(c) THEN "caller" ELSE "alloc"
                    /\ b.data = Overwrite(before[c].data, mac)
                    /\ b.length = IF b.tracked THEN n ELSE before[c].length

(* C14: with two calls in flight on independent arguments and distinct     *)
(* output stringers, in every interleaving of their steps each call stands *)
(* and ends as it does alone: it keys, feeds and releases only its own     *)
(* context and writes only its own stringer.                               *)
C14_ConcurrentCallsIndependent ==
    \A c \in DOMAIN pc : RunsAsAlone(c)

\* Both calls hold a keyed context at once, each fed its own input, and
\* call 2 has already been fed while call 1 is between its two rounds.
C14_Witness ==
    /\ DOMAIN pc = {1, 2}
    /\ ctx[1].state = "keyed" /\ ctx[2].state = "keyed"
    /\ ctx[1].fed = arg[1].s.bytes
    /\ ctx[2].fed = arg[2].s.bytes
    /\ ctx[1].key # ctx[2].key
    /\ pc[1] = "update" /\ pc[2] = "final"

IsHmacCall(op) == op.f \in HmacFunctions

\* The calls of call c to the HMAC functions, in order.
HmacCalls(c) == SelectSeq(ops[c], IsHmacCall)

(* C15: a successful call with round count R has made, in this order, one  *)
(* HMAC_Init_ex_d with the whole key, exactly R HMAC_Update_d each over    *)
(* the whole input, and one HMAC_Final_d writing from offset 0 of the      *)
(* output (between the context's init and its cleanup); the stream fed to  *)
(* the context is the input repeated R times, keyed once.                  *)
C15_RoundProtocolOrder ==
    \A c \in DOMAIN pc :
        (pc[c] = "done" /\ loc[c].ret # NULL) =>
            LET h == HmacCalls(c)
                R == loc[c].rounds
                input == arg[c].s.bytes
                key == arg[c].key.bytes
            IN  /\ Len(h) = R + 4
                /\ h[1].f = "HMAC_CTX_init_d"
                /\ h[2] = Called("HMAC_Init_ex_d", 1, Len(key))
                /\ \A i \in 3..(R + 2) : h[i] = Called("HMAC_Update_d", 1, Len(input))
                /\ h[R + 3] = Called("HMAC_Final_d", 1, DeclaredSize(c))
                /\ h[R + 4].f = "HMAC_CTX_cleanup_d"
                /\ ctx[c].key = key
                /\ ctx[c].fed = Repeat(input, R)
                /\ buf[c][loc[c].ret].data =
                       Overwrite(before[c].data,
                                 Mac(key, Repeat(input, R), DeclaredSize(c)))

\* A call with three rounds over <<1, 2>> succeeded, having fed
\* <<1, 2, 1, 2, 1, 2>>.
C15_Witness ==
    \E c \in DOMAIN pc :
        /\ pc[c] = "done"
        /\ loc[c].ret # NULL
        /\ loc[c].rounds = 3
        /\ ctx[c].fed = <<1, 2, 1, 2, 1, 2>>

\* HMAC_Final_d returned 1 and reported a size other than the declared one.
SizeMismatch(c) ==
    \E i \in DOMAIN ops[c] :
        /\ ops[c][i].f = "HMAC_Final_d"
        /\ ops[c][i].rc = 1
        /\ ops[c][i].n # DeclaredSize(c)

(* C16: once HMAC_Init_ex_d, an HMAC_Update_d round or HMAC_Final_d has    *)
(* failed, or HMAC_Final_d has reported a size other than the declared     *)
(* one, the length field of the output stringer is and stays what it was   *)
(* when the validated path received it, tracked or not, and the call       *)
(* returns NULL.                                                           *)
C16_PrimitiveFailureKeepsLength ==
    \A c \in DOMAIN pc :
        (ctx[c].inits = 1 /\ ~WellBehaved(c)) =>
            /\ pc[c] \in {"cleanup_ctx", "returned", "done"}
            /\ buf[c][loc[c].output].length = before[c].length
            /\ pc[c] \in {"returned", "done"} => loc[c].result = NULL
            /\ pc[c] = "done" => loc[c].ret = NULL

\* A call into a tracked stringer of length 0 ended on a size mismatch.
C16_Witness ==
    \E c \in DOMAIN pc :
        /\ pc[c] = "done"
        /\ Caller(c)
        /\ SizeMismatch(c)
        /\ st_valid_tracked(before[c])
        /\ before[c].length = 0
        /\ DeclaredSize(c) > 0

(* C17: when HMAC_Final_d returned 1 with a size other than the declared   *)
(* one, the call never takes the success exit: the mismatch is logged, the *)
(* validated path returns NULL, and the call returns NULL, with a caller's *)
(* output not freed and with an allocated output freed once.               *)
C17_SizeMismatchIsFailure ==
    \A c \in DOMAIN pc :
        SizeMismatch(c) =>
            /\ pc[c] \in {"cleanup_ctx", "returned", "done"}
            /\ log[c][Len(log[c])] =
                   "HMAC output size does not match digest output size"
            /\ pc[c] \in {"returned", "done"} => loc[c].result = NULL
            /\ pc[c] = "done" =>
                 /\ loc[c].ret = NULL
                 /\ freed[c] = IF Caller(c) THEN <<>> ELSE <<"alloc">>

\* A call that allocated its output ended on a size mismatch and freed it.
C17_Witness ==
    \E c \in DOMAIN pc :
        /\ pc[c] = "done"
        /\ ~Caller(c)
        /\ SizeMismatch(c)
        /\ freed[c] = <<"alloc">>

\* st_alloc returned NULL to call c.
AllocFailed(c) ==
    \E i \in DOMAIN ops[c] : ops[c][i].f = "st_alloc" /\ ops[c][i].rc = 0

(* C18: when st_alloc returns NULL on the allocating path, the call logs   *)
(* the allocation failure and returns NULL at once: no check of the        *)
(* validated path is evaluated, no HMAC function is called, the context is *)
(* never initialised, and nothing is freed.                                *)
C18_AllocFailureStops ==
    \A c \in DOMAIN pc :
        AllocFailed(c) =>
            /\ pc[c] = "done"
            /\ loc[c].ret = NULL
            /\ log[c] = <<"st_alloc() failed for 'output'">>
            /\ loc[c].checks = 0
            /\ HmacCalls(c) = <<>>
            /\ ctx[c] = NoCtx
            /\ freed[c] = <<>>
            /\ \A i \in DOMAIN ops[c] : ops[c][i].f \in {"EVP_MD_size_d", "st_alloc"}
            /\ DOMAIN buf[c] = {}

\* A call with valid arguments and no output ended on a failed allocation.
C18_Witness ==
    \E c \in DOMAIN pc :
        /\ pc[c] = "done"
        /\ ~Caller(c)
        /\ AllocFailed(c)
        /\ Violated(c) \subseteq {5}
        /\ arg[c].digest.present

\* The number of calls of call c to function f.
Count(c, f) == Cardinality({i \in DOMAIN ops[c] : ops[c][i].f = f})

(* C19: in every call the context is initialised at most once and cleaned  *)
(* up at most as often as it was initialised, every cleanup coming after   *)
(* the initialisation; a call that failed a validation check did neither;  *)
(* and a call that has left the validated path has cleaned up exactly as   *)
(* many times as it initialised, 0 or 1.                                   *)
C19_InitCleanupBalanced ==
    \A c \in DOMAIN pc :
        /\ ctx[c].inits = Count(c, "HMAC_CTX_init_d")
        /\ ctx[c].cleanups = Count(c, "HMAC_CTX_cleanup_d")
        /\ ctx[c].cleanups <= ctx[c].inits
        /\ ctx[c].inits <= 1
        /\ \A j \in DOMAIN ops[c] :
               ops[c][j].f = "HMAC_CTX_cleanup_d" =>
                   \E i \in 1..(j - 1) : ops[c][i].f = "HMAC_CTX_init_d"
        /\ (\E i \in DOMAIN log[c] : log[c][i] \in ValidationMessages) =>
               ctx[c].inits = 0 /\ ctx[c].cleanups = 0
        /\ ctx[c].inits = 1 =>
               (ctx[c].cleanups = 1 <=> pc[c] \in {"returned", "done"})

\* A successful call has ended with one initialisation and one cleanup.
C19_Witness ==
    \E c \in DOMAIN pc :
        /\ pc[c] = "done"
        /\ loc[c].ret # NULL
        /\ Count(c, "HMAC_CTX_init_d") = 1
        /\ Count(c, "HMAC_CTX_cleanup_d") = 1

\* The calls to HMAC_Init_ex_d, HMAC_Update_d and HMAC_Final_d.
IsStep(op) == op.f \in {"HMAC_Init_ex_d", "HMAC_Update_d", "HMAC_Final_d"}

(* C20: after the first HMAC_Init_ex_d, HMAC_Update_d or HMAC_Final_d that *)
(* returned other than 1, the call makes no further such call: what        *)
(* follows is one HMAC_CTX_cleanup_d and, on the allocating path, the      *)
(* st_free.  HMAC_Final_d is called only after HMAC_Init_ex_d and exactly  *)
(* rounds HMAC_Update_d all returned 1, and until it is called the data of *)
(* the output stringer is what the validated path received.                *)
C20_FailFast ==
    \A c \in DOMAIN pc :
        /\ \A i \in DOMAIN ops[c] :
               (IsStep(ops[c][i]) /\ ops[c][i].rc # 1) =>
                   /\ \A j \in (i + 1)..Len(ops[c]) :
                          ops[c][j].f \in {"HMAC_CTX_cleanup_d", "st_free"}
                   /\ pc[c] \in {"cleanup_ctx", "returned", "done"}
                   /\ pc[c] = "done" => Count(c, "HMAC_CTX_cleanup_d") = 1
        /\ \A j \in DOMAIN ops[c] :
               ops[c][j].f = "HMAC_Final_d" =>
                   LET earlier == SelectSeq(SubSeq(ops[c], 1, j - 1), IsStep)
                   IN  /\ Len(earlier) = loc[c].rounds + 1
                       /\ earlier[1].f = "HMAC_Init_ex_d"
                       /\ \A i \in DOMAIN earlier :
                              /\ earlier[i].rc = 1
                              /\ i > 1 => earlier[i].f = "HMAC_Update_d"
        /\ (Count(c, "HMAC_Final_d") = 0 /\ loc[c].output \in DOMAIN buf[c]) =>
               buf[c][loc[c].output].data = before[c].data
        /\ Count(c, "HMAC_Final_d") <= 1

\* A call failed in its second update round of three and ended without a
\* finalize.
C20_Witness ==
    \E c \in DOMAIN pc :
        /\ pc[c] = "done"
        /\ loc[c].rounds = 3
        /\ Count(c, "HMAC_Update_d") = 2
        /\ \E i \in DOMAIN ops[c] : ops[c][i] = Called("HMAC_Update_d", 0, Len(arg[c].s.bytes))
        /\ Count(c, "HMAC_Final_d") = 0
        /\ Count(c, "HMAC_CTX_cleanup_d") = 1

============================================================================
